---- MODULE Spec2Model ----
(***************************************************************************)
(* The task dashboard (DashboardPage, TaskList, TaskForm, TaskItem) of the  *)
(* to-do application, together with the task resource it talks to.          *)
(*                                                                          *)
(* The dashboard of one signed-in user ("alice") is modelled handler by     *)
(* handler.  Every request is in flight in two stages: the server handles   *)
(* it ("sent" -> "replied") and the awaiting handler resumes when the reply *)
(* is delivered.  The task resource itself (the backend behind taskApi) is  *)
(* modelled from its contract.  A second API client ("bob") acts on the     *)
(* same resource.                                                           *)
(***************************************************************************)
EXTENDS Integers, Sequences, FiniteSets, Bags, TLC

\* ---------------------------------------------------------------- bounds
\* The task ids of the server.
MaxIds == 2
\* Tasks created in a run (the ids below were handed out before).
MaxCreates == 1
\* Requests of the dashboard in flight at the same time.
MaxInFlight == 2

\* ------------------------------------------------------ program constants
FormTitleMaxLength == 255
FormDescriptionMaxLength == 10000
SubmitTitleLimit == 255
SubmitDescriptionLimit == 10000
ItemTitleMaxLength == 255
ItemDescriptionMaxLength == 10000

\* ---------------------------------------------------------------- strings
\* A string is a sequence of runs <<character, count>>; " a " is
\* << <<" ",1>>, <<"a",1>>, <<" ",1>> >>.  Runs make strings of 256 or 10001
\* characters as cheap as short ones.
RECURSIVE StrLen(_)
StrLen(s) == IF s = <<>> THEN 0 ELSE Head(s)[2] + StrLen(Tail(s))

RECURSIVE TrimStart(_)
TrimStart(s) ==
  IF s = <<>> THEN s
  ELSE IF Head(s)[1] = " " THEN TrimStart(Tail(s)) ELSE s

RECURSIVE TrimEnd(_)
TrimEnd(s) ==
  IF s = <<>> THEN s
  ELSE IF s[Len(s)][1] = " " THEN TrimEnd(SubSeq(s, 1, Len(s) - 1)) ELSE s

\* A trim that removes nothing.
Untrimmed(s) == s

\* String.prototype.trim
Trim(s) == TrimEnd(TrimStart(s))

EmptyStr == <<>>
\* null, as a value no string equals
Null == << <<"null", 0>> >>

\* x || null   (an empty string is falsy)
OrNull(s) == IF s = EmptyStr THEN Null ELSE s
\* x || ""     (null and "" are falsy)
OrEmpty(s) == IF s = Null THEN EmptyStr ELSE s

\* What the user may try to put into a title field and a description field.
TitleTexts ==
  { EmptyStr,
    << <<" ", 1>>, <<"a", 1>>, <<" ", 1>> >>,
    << <<"a", FormTitleMaxLength + 1>> >> }
EditTitleTexts ==
  { << <<" ", 1>> >>,
    << <<" ", 1>>, <<"a", 1>>, <<" ", 1>> >>,
    << <<"a", ItemTitleMaxLength + 1>> >> }
DescriptionTexts ==
  { EmptyStr,
    << <<" ", 1>>, <<"d", 1>> >>,
    << <<"d", FormDescriptionMaxLength + 1>> >> }

\* ------------------------------------------------------------------ users
NoUser == "undefined"
SessionUser == "alice"
OtherUser == "bob"
Users == {SessionUser, OtherUser}

Ids == 1..MaxIds

\* --------------------------------------------------------- error strings
NoError == "null"
LoadFailed == "Failed to load tasks. Please try again."
UpdateFailed == "Failed to update task. Please try again."
DeleteFailed == "Failed to delete task. Please try again."
CreateFailed == "Failed to create task"
NoDetail == "undefined"
ServerDetail == "detail"

VARIABLES
  srv,          \* the task resource: id -> stored task
  nextId,       \* the next id the server hands out
  createdBy,    \* id -> the user whose create made it (history)
  userId,       \* session?.user?.id
  tasks,        \* DashboardPage: the local task list
  isLoading,    \* DashboardPage
  error,        \* DashboardPage
  isCreating,   \* DashboardPage
  createError,  \* DashboardPage
  title,        \* TaskForm
  description,  \* TaskForm
  localError,   \* TaskForm
  items,        \* id (React key) -> state of the mounted TaskItem
  reqs          \* slot -> request in flight

vars == <<srv, nextId, createdBy, userId, tasks, isLoading, error,
          isCreating, createError, title, description, localError, items, reqs>>

serverVars == <<srv, nextId, createdBy>>
formVars == <<title, description, localError>>

\* ------------------------------------------------- the task resource
\* The backend behind taskApi: every operation is scoped to the calling user.
ServerTitleLimit == 255
ServerDescriptionLimit == 10000

NoTask ==
  [exists |-> FALSE, owner |-> NoUser, title |-> EmptyStr,
   description |-> Null, completed |-> FALSE]

\* The Task object of a response (created_at and updated_at are carried along
\* unread by the dashboard's handlers and are left out).
TaskResponse(s, id) ==
  [id |-> id, title |-> s[id].title, description |-> s[id].description,
   completed |-> s[id].completed]

\* The authorization rule without its owner check.
SrvOwnsAnyone(s, u, id) == s[id].exists

\* The authorization rule: the task exists and belongs to the caller.
SrvOwns(s, u, id) == s[id].exists /\ s[id].owner = u

SrvValid(t, d) ==
  /\ t # EmptyStr /\ Trim(t) # EmptyStr
  /\ StrLen(t) <= ServerTitleLimit
  /\ d = Null \/ StrLen(d) <= ServerDescriptionLimit

\* list(): the caller's tasks, newest first.
RECURSIVE SrvListFrom(_, _, _)
SrvListFrom(s, u, k) ==
  IF k = 0 THEN <<>>
  ELSE (IF SrvOwns(s, u, k) THEN <<TaskResponse(s, k)>> ELSE <<>>)
       \o SrvListFrom(s, u, k - 1)
SrvList(s, u) == SrvListFrom(s, u, MaxIds)

SrvCreate(s, n, u, t, d) ==
  [s EXCEPT ![n] = [exists |-> TRUE, owner |-> u, title |-> t,
                    description |-> d, completed |-> FALSE]]
SrvToggle(s, id) == [s EXCEPT ![id].completed = ~s[id].completed]
SrvUpdate(s, id, t, d) == [s EXCEPT ![id].title = t, ![id].description = d]
SrvDelete(s, id) == [s EXCEPT ![id] = NoTask]

\* The server state after user u's operation op on task id, when authorized.
SrvApply(s, op, id, t, d) ==
  CASE op = "toggle" -> SrvToggle(s, id)
    [] op = "update" -> SrvUpdate(s, id, t, d)
    [] op = "delete" -> SrvDelete(s, id)

\* ------------------------------------------------------ requests in flight
\* A call of taskApi just issued.  alive: the component that awaits it is
\* still mounted.  quiet is history, read by no handler: whether no
\* other request was in flight when this one was issued.
Req(kind, u, id, t, d) ==
  [kind |-> kind, user |-> u, taskId |-> id, title |-> t, description |-> d,
   stage |-> "sent", ok |-> FALSE, detail |-> NoDetail, resp |-> <<>>,
   alive |-> TRUE, quiet |-> TRUE]

ItemKinds == {"toggle", "update", "delete"}

\* The requests in flight are a bag of such records.
HasFree(rq) == BagCardinality(rq) < MaxInFlight
Send(rq, r) == rq (+) SetToBag({r})
Drop(rq, r) == rq (-) SetToBag({r})

\* --------------------------------------------------------------- TaskItem
NotMounted ==
  [mounted |-> FALSE, isEditing |-> FALSE, editTitle |-> EmptyStr,
   editDescription |-> EmptyStr, isLoading |-> FALSE, isDeleting |-> FALSE]

\* The useState initial values of a TaskItem mounted for `task`.
FreshItem(task) ==
  [mounted |-> TRUE, isEditing |-> FALSE, editTitle |-> task.title,
   editDescription |-> OrEmpty(task.description), isLoading |-> FALSE,
   isDeleting |-> FALSE]

\* --------------------------------------------------------------- TaskList
IdsOf(tk) == {tk[i].id : i \in 1..Len(tk)}
\* The task prop of the TaskItem with key id.
TaskOf(tk, id) == tk[CHOOSE i \in 1..Len(tk) : tk[i].id = id /\ \A j \in 1..(i - 1) : tk[j].id # id]

\* TaskList renders the items only past its loading, error and empty states.
ListShown(tk, ld, er) == ~ld /\ er = NoError /\ Len(tk) # 0

\* The TaskItems after a render: an item keeps its state while its key stays
\* in the rendered list, is mounted fresh when its key appears, and is
\* unmounted (its state dropped) otherwise.
Render(its, tk, ld, er) ==
  [id \in Ids |->
     IF ListShown(tk, ld, er) /\ id \in IdsOf(tk)
     THEN IF its[id].mounted THEN its[id] ELSE FreshItem(TaskOf(tk, id))
     ELSE NotMounted]

\* Requests whose awaiting TaskItem was unmounted resume on a dead component.
Orphan(r, its) ==
  IF r.alive /\ r.kind \in ItemKinds /\ ~its[r.taskId].mounted
  THEN [r EXCEPT !.alive = FALSE]
  ELSE r
Detach(rq, its) == BagOfAll(LAMBDA r : Orphan(r, its), rq)

\* The page state after a handler ran, re-rendered.
Rerender(tk, ld, er, its, rq) ==
  /\ tasks' = tk
  /\ isLoading' = ld
  /\ error' = er
  /\ items' = Render(its, tk, ld, er)
  /\ reqs' = Detach(rq, Render(its, tk, ld, er))

\* ------------------------------------------------------------------- Init
Init ==
  /\ srv = [id \in Ids |-> NoTask]
  /\ nextId = MaxIds - MaxCreates + 1
  /\ createdBy = [id \in Ids |-> NoUser]
  /\ userId = NoUser
  /\ tasks = <<>>
  /\ isLoading = TRUE
  /\ error = NoError
  /\ isCreating = FALSE
  /\ createError = NoError
  /\ title = EmptyStr
  /\ description = EmptyStr
  /\ localError = NoError
  /\ items = [id \in Ids |-> NotMounted]
  /\ reqs = EmptyBag

\* ------------------------------------------- DashboardPage: reconciliation
\* setTasks((prev) => [newTask, ...prev])
Prepend(t, tk) == <<t>> \o tk
\* A map that forgets to compare the ids.
ReplaceEvery(tk, id, t) == [i \in 1..Len(tk) |-> t]
\* setTasks((prev) => prev.map((t) => (t.id === taskId ? updatedTask : t)))
ReplaceById(tk, id, t) == [i \in 1..Len(tk) |-> IF tk[i].id = id THEN t ELSE tk[i]]
\* A filter with the comparison turned around.
KeepById(tk, id) == SelectSeq(tk, LAMBDA t : t.id = id)
\* setTasks((prev) => prev.filter((t) => t.id !== taskId))
RECURSIVE RemoveById(_, _)
RemoveById(tk, id) ==
  IF tk = <<>> THEN <<>>
  ELSE (IF Head(tk).id # id THEN <<Head(tk)>> ELSE <<>>) \o RemoveById(Tail(tk), id)

\* ---------------------------------------------------------------- session
\* useSession() delivers the session: userId changes, the fetchTasks effect
\* runs, and fetchTasks issues listTasks.
SessionLoad ==
  /\ userId = NoUser
  /\ HasFree(reqs)
  /\ userId' = SessionUser
  /\ Rerender(tasks, TRUE, NoError, items,
              Send(reqs, Req("list", SessionUser, 0, EmptyStr, Null)))
  /\ UNCHANGED <<serverVars, isCreating, createError, formVars>>

\* The session goes away: userId changes, the effect runs, fetchTasks returns
\* at once.
SessionLost ==
  /\ userId # NoUser
  /\ userId' = NoUser
  /\ UNCHANGED <<serverVars, tasks, isLoading, error, isCreating,
                 createError, formVars, items, reqs>>

\* fetchTasks resumes after listTasks.
FetchTasksDone(r) ==
  /\ r.kind = "list" /\ r.stage = "replied"
  /\ Rerender(IF r.ok THEN r.resp ELSE tasks,
              FALSE,
              IF r.ok THEN error ELSE LoadFailed,
              items,
              Drop(reqs, r))
  /\ UNCHANGED <<serverVars, userId, isCreating, createError, formVars>>

\* --------------------------------------------------------------- TaskForm
\* maxLength of the form's inputs: what the browser lets the user enter.
TitleFits(t) == StrLen(t) <= FormTitleMaxLength
DescriptionFits(d) == StrLen(d) <= FormDescriptionMaxLength

\* onChange of the title input (disabled while submitting, maxLength 255).
SetTitle(t) ==
  /\ ~isCreating
  /\ TitleFits(t)
  /\ title' = t
  /\ UNCHANGED <<serverVars, userId, tasks, isLoading, error,
                 isCreating, createError, description, localError, items, reqs>>

\* onChange of the description textarea (disabled while submitting,
\* maxLength 10000).
SetDescription(d) ==
  /\ ~isCreating
  /\ DescriptionFits(d)
  /\ description' = d
  /\ UNCHANGED <<serverVars, userId, tasks, isLoading, error,
                 isCreating, createError, title, localError, items, reqs>>

\* disabled of the submit button.
SubmitDisabled == isCreating \/ Trim(title) = EmptyStr

\* The validation of handleSubmit: the message it sets, or NoError.
SubmitError(t, d) ==
  IF Trim(t) = EmptyStr THEN "Title is required"
  ELSE IF StrLen(Trim(t)) > SubmitTitleLimit
       THEN "Title must be 255 characters or less"
  ELSE IF StrLen(d) > SubmitDescriptionLimit
       THEN "Description must be 10000 characters or less"
  ELSE NoError

\* handleCreateTask up to its await: returns at once without a user id.
HandleCreateTask(t, d) ==
  IF userId = NoUser
  THEN UNCHANGED <<isCreating, createError, reqs>>
  ELSE /\ isCreating' = TRUE
       /\ createError' = NoError
       /\ reqs' = Send(reqs, Req("create", userId, 0, t, d))

\* handleSubmit up to its await; when onSubmit returned at once it goes on
\* and clears the form.
HandleSubmit ==
  /\ ~SubmitDisabled
  /\ userId = NoUser \/ HasFree(reqs)
  /\ localError' = SubmitError(title, description)
  /\ IF SubmitError(title, description) # NoError
     THEN UNCHANGED <<isCreating, createError, reqs, title, description>>
     ELSE /\ HandleCreateTask(Trim(title), OrNull(Trim(description)))
          /\ IF userId = NoUser
             THEN title' = EmptyStr /\ description' = EmptyStr
             ELSE UNCHANGED <<title, description>>
  /\ UNCHANGED <<serverVars, userId, tasks, isLoading, error, items>>

\* A handleCreateTask that clears the page's error after a success.
CreateTaskDoneClearing(r) ==
  /\ r.kind = "create" /\ r.stage = "replied"
  /\ isCreating' = FALSE
  /\ IF r.ok
     THEN /\ Rerender(Prepend(r.resp[1], tasks), isLoading, NoError, items,
                      Drop(reqs, r))
          /\ title' = EmptyStr
          /\ description' = EmptyStr
          /\ UNCHANGED createError
     ELSE /\ Rerender(tasks, isLoading, error, items, Drop(reqs, r))
          /\ createError' = (IF r.detail # NoDetail THEN r.detail
                             ELSE CreateFailed)
          /\ UNCHANGED <<title, description>>
  /\ UNCHANGED <<serverVars, userId, localError>>

\* handleCreateTask resumes after createTask, then handleSubmit resumes.
CreateTaskDone(r) ==
  /\ r.kind = "create" /\ r.stage = "replied"
  /\ isCreating' = FALSE
  /\ IF r.ok
     THEN /\ Rerender(Prepend(r.resp[1], tasks), isLoading, error, items,
                      Drop(reqs, r))
          /\ title' = EmptyStr
          /\ description' = EmptyStr
          /\ UNCHANGED createError
     ELSE /\ Rerender(tasks, isLoading, error, items, Drop(reqs, r))
          /\ createError' = (IF r.detail # NoDetail THEN r.detail
                             ELSE CreateFailed)
          /\ UNCHANGED <<title, description>>
  /\ UNCHANGED <<serverVars, userId, localError>>

\* --------------------------------------------------------------- TaskItem
\* The page's handleToggleComplete / handleUpdateTask / handleDeleteTask up to
\* the await, called by the TaskItem with key id, whose state becomes `it`
\* while it waits: without a user id the handler returns at once.
CallPage(kind, id, t, d, waiting, returned) ==
  IF userId = NoUser
  THEN Rerender(tasks, isLoading, error, [items EXCEPT ![id] = returned], reqs)
  ELSE Rerender(tasks, isLoading, error, [items EXCEPT ![id] = waiting],
                Send(reqs, [Req(kind, userId, id, t, d) EXCEPT
                              !.quiet = (reqs = EmptyBag)]))

\* disabled of the completion checkbox.
ToggleDisabled(it) == it.isLoading \/ it.isDeleting
\* disabled of the edit button and of the delete button.
EditDisabled(it) == it.isDeleting
DeleteDisabled(it) == it.isDeleting
\* disabled of the save button and of the cancel button.
SaveDisabled(it) == it.isLoading \/ Trim(it.editTitle) = EmptyStr
CancelDisabled(it) == it.isLoading

\* handleToggleComplete up to its await.
HandleToggleComplete(id) ==
  /\ items[id].mounted /\ ~items[id].isEditing
  /\ ~ToggleDisabled(items[id])
  /\ userId = NoUser \/ HasFree(reqs)
  /\ CallPage("toggle", id, EmptyStr, Null,
              [items[id] EXCEPT !.isLoading = TRUE],
              [items[id] EXCEPT !.isLoading = FALSE])
  /\ UNCHANGED <<serverVars, userId, isCreating, createError, formVars>>

HandleStartEdit(id) ==
  /\ items[id].mounted /\ ~items[id].isEditing
  /\ ~EditDisabled(items[id])
  /\ items' = [items EXCEPT ![id] =
                 [@ EXCEPT !.editTitle = TaskOf(tasks, id).title,
                           !.editDescription = OrEmpty(TaskOf(tasks, id).description),
                           !.isEditing = TRUE]]
  /\ UNCHANGED <<serverVars, userId, tasks, isLoading, error,
                 isCreating, createError, formVars, reqs>>

HandleCancelEdit(id) ==
  /\ items[id].mounted /\ items[id].isEditing
  /\ ~CancelDisabled(items[id])
  /\ items' = [items EXCEPT ![id] =
                 [@ EXCEPT !.isEditing = FALSE,
                           !.editTitle = TaskOf(tasks, id).title,
                           !.editDescription = OrEmpty(TaskOf(tasks, id).description)]]
  /\ UNCHANGED <<serverVars, userId, tasks, isLoading, error,
                 isCreating, createError, formVars, reqs>>

\* An edit field without its maxLength.
EditFitsAnything(t) == TRUE

\* maxLength of the edit inputs: what the browser lets the user enter.
EditTitleFits(t) == StrLen(t) <= ItemTitleMaxLength
EditDescriptionFits(d) == StrLen(d) <= ItemDescriptionMaxLength

\* onChange of the edit inputs (maxLength 255 and 10000).
SetEditTitle(id, t) ==
  /\ items[id].mounted /\ items[id].isEditing
  /\ EditTitleFits(t)
  /\ items' = [items EXCEPT ![id].editTitle = t]
  /\ UNCHANGED <<serverVars, userId, tasks, isLoading, error,
                 isCreating, createError, formVars, reqs>>

SetEditDescription(id, d) ==
  /\ items[id].mounted /\ items[id].isEditing
  /\ EditDescriptionFits(d)
  /\ items' = [items EXCEPT ![id].editDescription = d]
  /\ UNCHANGED <<serverVars, userId, tasks, isLoading, error,
                 isCreating, createError, formVars, reqs>>

\* handleSaveEdit up to its await; when onUpdate returned at once it goes on
\* and leaves the edit mode.
HandleSaveEdit(id) ==
  /\ items[id].mounted /\ items[id].isEditing
  /\ ~SaveDisabled(items[id])
  /\ userId = NoUser \/ HasFree(reqs)
  /\ IF Trim(items[id].editTitle) = EmptyStr
     THEN UNCHANGED <<tasks, isLoading, error, items, reqs>>
     ELSE CallPage("update", id, Trim(items[id].editTitle),
                   OrNull(Trim(items[id].editDescription)),
                   [items[id] EXCEPT !.isLoading = TRUE],
                   [items[id] EXCEPT !.isEditing = FALSE, !.isLoading = FALSE])
  /\ UNCHANGED <<serverVars, userId, isCreating, createError, formVars>>

\* handleDelete up to its await; the user answers the confirm() dialog.
HandleDelete(id, confirmed) ==
  /\ items[id].mounted /\ ~items[id].isEditing
  /\ ~DeleteDisabled(items[id])
  /\ userId = NoUser \/ HasFree(reqs)
  /\ IF ~confirmed
     THEN UNCHANGED <<tasks, isLoading, error, items, reqs>>
     ELSE CallPage("delete", id, EmptyStr, Null,
                   [items[id] EXCEPT !.isDeleting = TRUE],
                   [items[id] EXCEPT !.isDeleting = FALSE])
  /\ UNCHANGED <<serverVars, userId, isCreating, createError, formVars>>

\* Handlers that release isLoading only after a failure, not in a finally.
ResumeKeepsLoading(r, its) ==
  IF ~r.alive THEN its
  ELSE CASE r.kind = "toggle" ->
              IF r.ok THEN its ELSE [its EXCEPT ![r.taskId].isLoading = FALSE]
         [] r.kind = "update" ->
              IF r.ok THEN [its EXCEPT ![r.taskId].isEditing = FALSE]
              ELSE [its EXCEPT ![r.taskId].isLoading = FALSE]
         [] r.kind = "delete" -> [its EXCEPT ![r.taskId].isDeleting = FALSE]

\* The TaskItem's handler resumes (its finally block, and after a successful
\* onUpdate its setIsEditing(false)); on an unmounted item this does nothing.
Resume(r, its) ==
  IF ~r.alive THEN its
  ELSE CASE r.kind = "toggle" -> [its EXCEPT ![r.taskId].isLoading = FALSE]
         [] r.kind = "update" ->
              IF r.ok
              THEN [its EXCEPT ![r.taskId].isEditing = FALSE,
                               ![r.taskId].isLoading = FALSE]
              ELSE [its EXCEPT ![r.taskId].isLoading = FALSE]
         [] r.kind = "delete" -> [its EXCEPT ![r.taskId].isDeleting = FALSE]

\* handleToggleComplete resuming after a failure without setError.
ToggleCompleteDoneSilently(r) ==
  /\ r.kind = "toggle" /\ r.stage = "replied"
  /\ Rerender(IF r.ok THEN ReplaceById(tasks, r.taskId, r.resp[1])
              ELSE tasks,
              isLoading,
              error,
              Resume(r, items),
              Drop(reqs, r))
  /\ UNCHANGED <<serverVars, userId, isCreating, createError, formVars>>

\* The page's handleToggleComplete resumes after toggleComplete.
ToggleCompleteDone(r) ==
  /\ r.kind = "toggle" /\ r.stage = "replied"
  /\ Rerender(IF r.ok THEN ReplaceById(tasks, r.taskId, r.resp[1])
              ELSE tasks,
              isLoading,
              IF r.ok THEN error ELSE UpdateFailed,
              Resume(r, items),
              Drop(reqs, r))
  /\ UNCHANGED <<serverVars, userId, isCreating, createError, formVars>>

\* handleUpdateTask resumes after updateTask.
UpdateTaskDone(r) ==
  /\ r.kind = "update" /\ r.stage = "replied"
  /\ Rerender(IF r.ok THEN ReplaceById(tasks, r.taskId, r.resp[1])
              ELSE tasks,
              isLoading,
              IF r.ok THEN error ELSE UpdateFailed,
              Resume(r, items),
              Drop(reqs, r))
  /\ UNCHANGED <<serverVars, userId, isCreating, createError, formVars>>

\* handleDeleteTask resumes after deleteTask.
DeleteTaskDone(r) ==
  /\ r.kind = "delete" /\ r.stage = "replied"
  /\ Rerender(IF r.ok THEN RemoveById(tasks, r.taskId) ELSE tasks,
              isLoading,
              IF r.ok THEN error ELSE DeleteFailed,
              Resume(r, items),
              Drop(reqs, r))
  /\ UNCHANGED <<serverVars, userId, isCreating, createError, formVars>>

\* ------------------------------------------------ the requests on the wire
\* The bag of requests with request r answered.
Replied(rq, r, ok, detail, resp) ==
  Send(Drop(rq, r),
       [r EXCEPT !.stage = "replied", !.ok = ok, !.detail = detail, !.resp = resp])

\* The request never gets an answer from the server (network failure).
TransportFails(r) ==
  /\ r.stage = "sent"
  /\ reqs' = Replied(reqs, r, FALSE, NoDetail, <<>>)
  /\ UNCHANGED <<serverVars, userId, tasks, isLoading, error,
                 isCreating, createError, formVars, items>>

\* The server handles the request and answers it.
ServerReplies(r) ==
  /\ r.stage = "sent"
  /\ CASE r.kind = "list" ->
            /\ reqs' = Replied(reqs, r, TRUE, NoDetail, SrvList(srv, r.user))
            /\ UNCHANGED serverVars
       [] r.kind = "create" ->
            /\ nextId <= MaxIds
            /\ IF SrvValid(r.title, r.description)
               THEN /\ srv' = SrvCreate(srv, nextId, r.user, r.title, r.description)
                    /\ nextId' = nextId + 1
                    /\ createdBy' = [createdBy EXCEPT ![nextId] = r.user]
                    /\ reqs' = Replied(reqs, r, TRUE, NoDetail,
                                       <<TaskResponse(srv', nextId)>>)
               ELSE /\ reqs' = Replied(reqs, r, FALSE, ServerDetail, <<>>)
                    /\ UNCHANGED serverVars
       [] r.kind \in ItemKinds ->
            IF SrvOwns(srv, r.user, r.taskId)
            THEN /\ srv' = SrvApply(srv, r.kind, r.taskId, r.title, r.description)
                 /\ reqs' = Replied(reqs, r, TRUE, NoDetail,
                                    IF r.kind = "delete" THEN <<>>
                                    ELSE <<TaskResponse(srv', r.taskId)>>)
                 /\ UNCHANGED <<nextId, createdBy>>
            ELSE /\ reqs' = Replied(reqs, r, FALSE, ServerDetail, <<>>)
                 /\ UNCHANGED serverVars
  /\ UNCHANGED <<userId, tasks, isLoading, error, isCreating,
                 createError, formVars, items>>

\* ------------------------------------------------------ the second client
\* What the second client sends.
RawTitle == << <<"a", 1>> >>
RawNewTitle == << <<"b", 1>> >>

\* Another API client creates a task of its own.
RawCreate(u) ==
  /\ u = OtherUser
  /\ nextId <= MaxIds
  /\ srv' = SrvCreate(srv, nextId, u, RawTitle, Null)
  /\ nextId' = nextId + 1
  /\ createdBy' = [createdBy EXCEPT ![nextId] = u]
  /\ UNCHANGED <<userId, tasks, isLoading, error, isCreating, createError,
                 formVars, items, reqs>>

\* A user calls toggle, update or delete on task id directly: the second
\* client on any id, the session user on ids of tasks that are not the session user's.  A call on a
\* task that is not the caller's is answered with an error and changes nothing.
RawCall(u, op, id) ==
  /\ u = OtherUser \/ ~SrvOwns(srv, u, id)
  /\ srv' = (IF SrvOwns(srv, u, id) THEN SrvApply(srv, op, id, RawNewTitle, Null)
             ELSE srv)
  /\ UNCHANGED <<nextId, createdBy, userId, tasks, isLoading, error, isCreating,
                 createError, formVars, items, reqs>>

\* ------------------------------------------------------------------- Next
Next ==
  \/ SessionLoad
  \/ SessionLost
  \/ \E t \in TitleTexts : SetTitle(t)
  \/ \E d \in DescriptionTexts : SetDescription(d)
  \/ HandleSubmit
  \/ \E id \in Ids : HandleToggleComplete(id)
  \/ \E id \in Ids : HandleStartEdit(id)
  \/ \E id \in Ids : HandleCancelEdit(id)
  \/ \E id \in Ids, t \in EditTitleTexts : SetEditTitle(id, t)
  \/ \E id \in Ids, d \in DescriptionTexts : SetEditDescription(id, d)
  \/ \E id \in Ids : HandleSaveEdit(id)
  \/ \E id \in Ids, confirmed \in BOOLEAN : HandleDelete(id, confirmed)
  \/ \E r \in BagToSet(reqs) : TransportFails(r)
  \/ \E r \in BagToSet(reqs) : ServerReplies(r)
  \/ \E r \in BagToSet(reqs) : FetchTasksDone(r)
  \/ \E r \in BagToSet(reqs) : CreateTaskDone(r)
  \/ \E r \in BagToSet(reqs) : ToggleCompleteDone(r)
  \/ \E r \in BagToSet(reqs) : UpdateTaskDone(r)
  \/ \E r \in BagToSet(reqs) : DeleteTaskDone(r)
  \/ \E u \in Users : RawCreate(u)
  \/ \E u \in Users, op \in ItemKinds, id \in Ids : RawCall(u, op, id)

Spec == Init /\ [][Next]_vars

\* ------------------------------------------ a dashboard with tasks loaded
\* The session user already has the tasks with the ids handed out before, and
\* the dashboard has loaded and rendered them.
StoredBefore ==
  [id \in Ids |->
     IF id <= MaxIds - MaxCreates
     THEN [exists |-> TRUE, owner |-> SessionUser, title |-> RawTitle,
           description |-> Null, completed |-> FALSE]
     ELSE NoTask]

InitPair ==
  /\ srv = StoredBefore
  /\ nextId = MaxIds - MaxCreates + 1
  /\ createdBy = [id \in Ids |-> IF StoredBefore[id].exists THEN SessionUser
                                 ELSE NoUser]
  /\ userId = SessionUser
  /\ tasks = SrvList(StoredBefore, SessionUser)
  /\ isLoading = FALSE
  /\ error = NoError
  /\ isCreating = FALSE
  /\ createError = NoError
  /\ title = EmptyStr
  /\ description = EmptyStr
  /\ localError = NoError
  /\ items = Render([id \in Ids |-> NotMounted],
                    SrvList(StoredBefore, SessionUser), FALSE, NoError)
  /\ reqs = EmptyBag

\* The session stays, and the user works on the form and the items; the
\* edited descriptions stay as loaded.
NextPair ==
  \/ \E t \in TitleTexts : SetTitle(t)
  \/ \E d \in DescriptionTexts : SetDescription(d)
  \/ HandleSubmit
  \/ \E id \in Ids : HandleToggleComplete(id)
  \/ \E id \in Ids : HandleStartEdit(id)
  \/ \E id \in Ids : HandleCancelEdit(id)
  \/ \E id \in Ids, t \in EditTitleTexts : SetEditTitle(id, t)
  \/ \E id \in Ids : HandleSaveEdit(id)
  \/ \E id \in Ids, confirmed \in BOOLEAN : HandleDelete(id, confirmed)
  \/ \E r \in BagToSet(reqs) : TransportFails(r)
  \/ \E r \in BagToSet(reqs) : ServerReplies(r)
  \/ \E r \in BagToSet(reqs) : CreateTaskDone(r)
  \/ \E r \in BagToSet(reqs) : ToggleCompleteDone(r)
  \/ \E r \in BagToSet(reqs) : UpdateTaskDone(r)
  \/ \E r \in BagToSet(reqs) : DeleteTaskDone(r)

SpecPair == InitPair /\ [][NextPair]_vars

\* ------------------------------------- one session, no network failure
\* The session is delivered once and stays, and every request reaches the
\* server.
NextOk ==
  \/ SessionLoad
  \/ \E t \in TitleTexts : SetTitle(t)
  \/ \E d \in DescriptionTexts : SetDescription(d)
  \/ HandleSubmit
  \/ \E id \in Ids : HandleToggleComplete(id)
  \/ \E id \in Ids : HandleStartEdit(id)
  \/ \E id \in Ids : HandleCancelEdit(id)
  \/ \E id \in Ids, t \in EditTitleTexts : SetEditTitle(id, t)
  \/ \E id \in Ids, d \in DescriptionTexts : SetEditDescription(id, d)
  \/ \E id \in Ids : HandleSaveEdit(id)
  \/ \E id \in Ids, confirmed \in BOOLEAN : HandleDelete(id, confirmed)
  \/ \E r \in BagToSet(reqs) : ServerReplies(r)
  \/ \E r \in BagToSet(reqs) : FetchTasksDone(r)
  \/ \E r \in BagToSet(reqs) : CreateTaskDone(r)
  \/ \E r \in BagToSet(reqs) : ToggleCompleteDone(r)
  \/ \E r \in BagToSet(reqs) : UpdateTaskDone(r)
  \/ \E r \in BagToSet(reqs) : DeleteTaskDone(r)

SpecOk == Init /\ [][NextOk]_vars

\* ================================================================= claims

\* ---------------------------------------------------------------------- C1
\* A task is changed only by its owner and is listed only to its owner.
\* The step changes the stored task id (its content, its completed flag or
\* its existence).
Changes(id) == srv[id].exists /\ srv'[id] # srv[id]

\* The step is an operation on task id by the user who created it: a direct
\* call by that user, or the server handling the dashboard's request in that
\* user's name.
OwnerActs(id) ==
  \/ \E op \in ItemKinds : RawCall(createdBy[id], op, id)
  \/ \E r \in BagToSet(reqs) :
       r.taskId = id /\ r.user = createdBy[id] /\ ServerReplies(r)

OnlyOwned(tk, u) == \A i \in 1..Len(tk) : createdBy[tk[i].id] = u

\* In every state no user passes the authorization for a task of another
\* user, every list (the server's, a reply on the wire, the dashboard's) holds
\* only tasks of the user it is for, and no request of a user on a task of
\* another was answered with success.
Isolated ==
  /\ \A u \in Users, id \in Ids : createdBy[id] # u => ~SrvOwns(srv, u, id)
  /\ \A u \in Users : OnlyOwned(SrvList(srv, u), u)
  /\ OnlyOwned(tasks, SessionUser)
  /\ \A r \in BagToSet(reqs) :
       /\ r.kind = "list" => OnlyOwned(r.resp, r.user)
       /\ r.kind \in ItemKinds /\ r.ok => createdBy[r.taskId] = r.user

\* C1: for every user A and every task of another user B, update, toggle,
\* delete and list by A fail and never succeed: a task's content, completed
\* flag and existence change only in steps of its owner, and it appears only
\* in its owner's lists.
C1_OwnerOnly == []Isolated /\ [][\A id \in Ids : Changes(id) => OwnerActs(id)]_vars

\* The dashboard has loaded the session user's list, which is empty, while a
\* task of the other user is stored.
C1_Witness ==
  /\ userId = SessionUser /\ ~isLoading /\ error = NoError /\ tasks = <<>>
  /\ \E id \in Ids : SrvOwns(srv, OtherUser, id) /\ srv[id].completed

\* ---------------------------------------------------------------------- C2
\* Request r was issued in this step.
Issued(r) ==
  r.stage = "sent" /\ r.alive /\ CopiesIn(r, reqs') > CopiesIn(r, reqs)

\* What the claim lets through: a title that is not empty after trimming and
\* has at most 255 characters, a description of at most 10000 characters.
Acceptable(t, d) == Trim(t) # EmptyStr /\ StrLen(t) <= 255 /\ StrLen(d) <= 10000

\* No create or update request in flight carries an empty or too long title
\* or a too long description.
PayloadsAcceptable ==
  \A r \in BagToSet(reqs) :
    r.kind \in {"create", "update"} =>
      /\ r.title # EmptyStr /\ StrLen(r.title) <= 255
      /\ r.description = Null \/ StrLen(r.description) <= 10000

Delivered(r) ==
  \/ FetchTasksDone(r)
  \/ CreateTaskDone(r)
  \/ ToggleCompleteDone(r)
  \/ UpdateTaskDone(r)
  \/ DeleteTaskDone(r)

Spaces(s) == \A i \in 1..Len(s) : s[i][1] = " "
\* c is e without its leading and trailing whitespace, nothing else altered.
Stripped(e, c) ==
  /\ c = <<>> \/ (c[1][1] # " " /\ c[Len(c)][1] # " ")
  /\ \E i \in 0..Len(e), j \in 0..Len(e) :
       /\ i <= j
       /\ SubSeq(e, i + 1, j) = c
       /\ Spaces(SubSeq(e, 1, i))
       /\ Spaces(SubSeq(e, j + 1, Len(e)))

\* C3 as stated: when a create succeeds, the task at the head of the local
\* list carries exactly the title and the description in the form's fields.
C3_ExactRoundTrip ==
  [][\A r \in BagToSet(reqs) :
       r.kind = "create" /\ r.ok /\ CreateTaskDone(r) =>
         /\ tasks'[1].title = title
         /\ OrEmpty(tasks'[1].description) = description]_vars

\* C3, amended: when a create succeeds, the task at the head of the local list
\* carries the entered title without its leading and trailing whitespace, and
\* the entered description without its leading and trailing whitespace, or no
\* description when nothing but whitespace was entered; no other character is
\* altered or dropped.
C3_TrimmedRoundTrip ==
  [][\A r \in BagToSet(reqs) :
       r.kind = "create" /\ r.ok /\ CreateTaskDone(r) =>
         /\ Stripped(title, tasks'[1].title)
         /\ Stripped(description, OrEmpty(tasks'[1].description))
         /\ tasks'[1].description = Null <=> Spaces(description)]_vars

\* A successful create is about to be delivered whose stored title differs
\* from the text in the title field.
C3_Witness ==
  \E r \in BagToSet(reqs) :
    /\ r.kind = "create" /\ r.stage = "replied" /\ r.ok
    /\ r.resp[1].title # title
    /\ r.resp[1].description # Null

\* ---------------------------------------------------------------------- C4
\* Task id was created and is no longer stored.
Gone(id) == createdBy[id] # NoUser /\ ~srv[id].exists

\* C4: a deleted task is in no list of the server and a further delete of it
\* by anyone is refused, and once it is out of the dashboard's local list it
\* does not come back into it.
C4_DeletedStaysOut ==
  /\ [](\A id \in Ids, u \in Users :
          Gone(id) => id \notin IdsOf(SrvList(srv, u)) /\ ~SrvOwns(srv, u, id))
  /\ [][\A id \in Ids :
          Gone(id) /\ id \notin IdsOf(tasks) => id \notin IdsOf(tasks')]_vars

\* ---------------------------------------------------------------------- C5
\* C5: a successful toggle negates the completed flag, on the server and in
\* the dashboard's entry, when no other operation touches the task meanwhile:
\* the item's request was issued with nothing else in flight and the item is
\* still mounted when the answer arrives.
C5_ToggleNegates ==
  [][\A r \in BagToSet(reqs) :
       /\ r.kind = "toggle" /\ ServerReplies(r) /\ SrvOwns(srv, r.user, r.taskId)
            => srv'[r.taskId].completed = ~srv[r.taskId].completed
       /\ r.kind = "toggle" /\ r.ok /\ r.quiet /\ r.alive /\ ToggleCompleteDone(r)
            => TaskOf(tasks', r.taskId).completed
                 = ~TaskOf(tasks, r.taskId).completed]_vars

\* ---------------------------------------------------------------------- C6
\* C6: a failed create sets the form's error and leaves the title and the
\* description fields as they are; a failed update sets the page's error and
\* leaves the TaskItem that sent it in editing mode with its edited title and
\* description.
C6_FailureKeepsEditState ==
  [][\A r \in BagToSet(reqs) :
       /\ r.kind = "create" /\ ~r.ok /\ CreateTaskDone(r) =>
            /\ createError' # NoError
            /\ title' = title /\ description' = description
       /\ r.kind = "update" /\ ~r.ok /\ r.alive /\ UpdateTaskDone(r) =>
            /\ error' # NoError
            /\ items'[r.taskId].mounted /\ items'[r.taskId].isEditing
            /\ items'[r.taskId].editTitle = items[r.taskId].editTitle
            /\ items'[r.taskId].editDescription
                 = items[r.taskId].editDescription]_vars

\* ---------------------------------------------------------------------- C7
\* C7: a TaskItem that stays mounted enters editing only by handleStartEdit
\* and leaves it only by handleCancelEdit or when the answer to its own
\* successful update arrives.
C7_EditModeMachine ==
  [][\A id \in Ids :
       items[id].mounted /\ items'[id].mounted =>
         /\ ~items[id].isEditing /\ items'[id].isEditing => HandleStartEdit(id)
         /\ items[id].isEditing /\ ~items'[id].isEditing =>
              \/ HandleCancelEdit(id)
              \/ \E r \in BagToSet(reqs) :
                   /\ r.kind = "update" /\ r.taskId = id /\ r.ok /\ r.alive
                   /\ UpdateTaskDone(r)]_vars

\* ---------------------------------------------------------------------- C8
\* The requests in flight that the mounted TaskItem with key id awaits.
AwaitedBy(id) ==
  BagCardinality([r \in {q \in BagToSet(reqs) :
                          q.kind \in ItemKinds /\ q.taskId = id /\ q.alive}
                    |-> reqs[r]])
CreatesInFlight ==
  BagCardinality([r \in {q \in BagToSet(reqs) : q.kind = "create"} |-> reqs[r]])

\* C8: every TaskItem, and the TaskForm, awaits at most one request.
C8_OneRequestPerWidget ==
  /\ CreatesInFlight <= 1
  /\ \A id \in Ids : AwaitedBy(id) <= 1

\* ---------------------------------------------------------------------- C9
\* C9: when the answer to a failed list, toggle, update or delete request
\* arrives the page's error is set, and when the answer to a failed create
\* arrives the form's error is set.
C9_FailureShown ==
  [][\A r \in BagToSet(reqs) :
       r.stage = "replied" /\ ~r.ok /\ Delivered(r) =>
         IF r.kind = "create" THEN createError' # NoError
         ELSE error' # NoError]_vars

\* Both a failed create and a failed request of another kind were shown.
C9_Witness ==
  /\ createError # NoError
  /\ error # NoError

\* --------------------------------------------------------------------- C10
\* The entries of tk with another id than id, in their order.
OthersOf(tk, id) == SelectSeq(tk, LAMBDA t : t.id # id)

\* C10: when the answer to a successful request arrives, a toggle or an update
\* puts the returned task in the place of every entry with its id and leaves
\* the length, a delete removes the entries with its id, a create puts the
\* returned task at the head; every entry with another id keeps its value and
\* its place relative to the others.
C10_OnlyThatEntry ==
  [][\A r \in BagToSet(reqs) :
       r.stage = "replied" /\ r.ok /\ Delivered(r) =>
         CASE r.kind \in {"toggle", "update"} ->
                /\ Len(tasks') = Len(tasks)
                /\ \A i \in 1..Len(tasks) :
                     /\ tasks[i].id = r.taskId => tasks'[i] = r.resp[1]
                     /\ tasks[i].id # r.taskId => tasks'[i] = tasks[i]
           [] r.kind = "delete" ->
                /\ r.taskId \notin IdsOf(tasks')
                /\ tasks' = OthersOf(tasks, r.taskId)
           [] r.kind = "create" ->
                /\ Head(tasks') = r.resp[1]
                /\ Tail(tasks') = tasks
           [] OTHER -> TRUE]_vars

\* The list holds a created task ahead of the loaded one, the loaded one was
\* toggled and the created one was not.
C10_Witness ==
  /\ Len(tasks) = 2
  /\ tasks[1].id # tasks[2].id
  /\ ~tasks[1].completed /\ tasks[2].completed
  /\ \E r \in BagToSet(reqs) : r.kind = "update" /\ r.stage = "replied" /\ r.ok

\* --------------------------------------------------------------------- C11
\* The entries of tk with the id, in their order.
EntriesOf(tk, id) == SelectSeq(tk, LAMBDA t : t.id = id)

\* The local list after the page's handler resumed with the answer r of a
\* toggle, update or delete request.
Reconciled(tk, r) ==
  IF ~r.ok THEN tk
  ELSE IF r.kind = "delete" THEN RemoveById(tk, r.taskId)
  ELSE ReplaceById(tk, r.taskId, r.resp[1])

\* C11: when the answer r to a toggle, update or delete arrives while a
\* request q on a task with another id is in flight, the entries of q's task
\* stay as they are, and if q is answered too the list ends up the same
\* whichever of the two answers the page takes first; on the server a request
\* changes no task but its own.
C11_Independent ==
  [][\A r \in BagToSet(reqs) :
       r.kind \in ItemKinds =>
         /\ ServerReplies(r) =>
              \A id \in Ids \ {r.taskId} : srv'[id] = srv[id]
         /\ r.stage = "replied" /\ Delivered(r) =>
              /\ tasks' = Reconciled(tasks, r)
              /\ \A q \in BagToSet(reqs) :
                   q.kind \in ItemKinds /\ q.taskId # r.taskId =>
                     /\ EntriesOf(tasks', q.taskId) = EntriesOf(tasks, q.taskId)
                     /\ q.stage = "replied" =>
                          Reconciled(tasks', q)
                            = Reconciled(Reconciled(tasks, q), r)]_vars

\* A successful delete of one task and a successful toggle of another are
\* both answered and neither answer was taken yet.
C11_Witness ==
  \E r, q \in BagToSet(reqs) :
    /\ r.kind = "delete" /\ q.kind = "toggle"
    /\ r.taskId # q.taskId
    /\ r.stage = "replied" /\ q.stage = "replied"
    /\ r.ok /\ q.ok /\ r.alive /\ q.alive
    /\ {r.taskId, q.taskId} \subseteq IdsOf(tasks)

\* --------------------------------------------------------------------- C12
\* A request of one of the kinds that the mounted TaskItem with key id awaits
\* is in flight.
Awaits(id, kinds) ==
  \E r \in BagToSet(reqs) : r.kind \in kinds /\ r.taskId = id /\ r.alive

\* Each flag is set exactly while its request is in flight.
FlagsTrack ==
  /\ isCreating <=> CreatesInFlight > 0
  /\ \A id \in Ids :
       IF items[id].mounted
       THEN /\ items[id].isLoading <=> Awaits(id, {"toggle", "update"})
            /\ items[id].isDeleting <=> Awaits(id, {"delete"})
       ELSE ~items[id].isLoading /\ ~items[id].isDeleting

\* C12: isLoading is set exactly while a toggle or save of the item is in
\* flight, isDeleting exactly while its delete is, isCreating exactly while a
\* create is; and when the answer arrives, success or failure, the flag of
\* the request is false again.
C12_FlagsReleased ==
  /\ []FlagsTrack
  /\ [][\A r \in BagToSet(reqs) :
          r.stage = "replied" /\ Delivered(r) =>
            /\ r.kind = "create" => ~isCreating'
            /\ r.kind \in {"toggle", "update"} /\ r.alive =>
                 ~items'[r.taskId].isLoading
            /\ r.kind = "delete" /\ r.alive => ~items'[r.taskId].isDeleting]_vars

\* A toggle of a listed task has succeeded and a later create has failed,
\* nothing is in flight and every flag is down.
C12_Witness ==
  /\ reqs = EmptyBag
  /\ createError # NoError /\ ~isCreating
  /\ \E id \in Ids :
       /\ items[id].mounted /\ TaskOf(tasks, id).completed
       /\ ~items[id].isLoading /\ ~items[id].isDeleting

\* --------------------------------------------------------------------- C13
\* C13: the dashboard's local list never holds two entries with the same id.
C13_NoDuplicateIds ==
  \A i, j \in 1..Len(tasks) : i # j => tasks[i].id # tasks[j].id

\* --------------------------------------------------------------------- C14
ElementsOf(tk) == {tk[i] : i \in 1..Len(tk)}

\* C14: when the list is loaded, no request is in flight and no request has
\* failed (a failure leaves the page's or the form's error set in a session
\* that loads once), the local list holds exactly the tasks the server stores
\* for the user, with the server's values.
C14_QuiescentInSync ==
  /\ userId = SessionUser /\ ~isLoading
  /\ reqs = EmptyBag
  /\ error = NoError /\ createError = NoError
  => ElementsOf(tasks) = ElementsOf(SrvList(srv, SessionUser))

\* --------------------------------------------------------------------- C15
\* C15: the page's error, once set, is cleared only in the step in which
\* fetchTasks runs again (the session is delivered and listTasks is sent); no
\* answer to a create, toggle, update or delete clears it; and while it is set
\* no TaskItem is rendered.
C15_ErrorStays ==
  /\ [](error # NoError => \A id \in Ids : ~items[id].mounted)
  /\ [][error # NoError /\ error' = NoError => SessionLoad]_vars

\* A toggle, update or delete has failed, the list still holds a task, and
\* the answer to a successful create is about to be taken.
C15_Witness ==
  /\ error \in {UpdateFailed, DeleteFailed}
  /\ Len(tasks) > 0
  /\ \E r \in BagToSet(reqs) : r.kind = "create" /\ r.stage = "replied" /\ r.ok

\* --------------------------------------------------------------------- C16
\* C16: the form's fields are cleared by a submit only when the answer to a
\* successful create arrives and the new task is in the local list, and a
\* save takes a TaskItem out of editing only when the answer to its
\* successful update arrives and the updated task is in the local list; the
\* steps of handleSubmit (taken with both fields filled, which tells it from
\* the user emptying the title) and handleSaveEdit themselves clear nothing
\* and leave the item in editing.
C16_OnlyAfterSuccess ==
  [][/\ HandleSubmit /\ description # EmptyStr =>
          title' = title /\ description' = description
     /\ \A id \in Ids : HandleSaveEdit(id) => items'[id].isEditing
     /\ \A r \in BagToSet(reqs) :
          /\ r.kind = "create" /\ CreateTaskDone(r)
             /\ <<title', description'>> # <<title, description>>
               => r.ok /\ r.resp[1] \in ElementsOf(tasks')
          /\ r.kind = "update" /\ r.alive /\ UpdateTaskDone(r)
             /\ items'[r.taskId].mounted /\ ~items'[r.taskId].isEditing
               => r.ok /\ r.resp[1] \in ElementsOf(tasks')]_vars
====
